---- MODULE Spec2Model ----
(***************************************************************************)
(* Model of the backend lifecycle supervisor of the desktop shell           *)
(* (desktop/src-tauri/src/main.rs): spawn_backend (port reservation, .env   *)
(* loading, child launch, log forwarders, health polling), the setup        *)
(* closure of main (state publication, window, close handler), the          *)
(* get_backend_url command and the close-requested handler.                 *)
(*                                                                          *)
(* Strings that the code inspects character by character are sequences of  *)
(* one-character strings.                                                   *)
(***************************************************************************)
EXTENDS Integers, Sequences, FiniteSets, TLC

\* ------------------------------------------------------------------ bounds
MaxLines == 2       \* lines read from the environment file
MaxFileLen == 4     \* characters of the environment file (exhaustive loader runs)
MaxClose == 2       \* close-requested events delivered to the window
MaxLog == 2         \* lines the child writes to its two pipes together
MaxErrs == 2        \* the count of dropped read errors wraps around here

\* ------------------------------------------------------- program constants
Attempts == 100     \* for _ in 0..100
TimeoutMs == 100    \* .timeout(Duration::from_millis(100))
IntervalMs == 100   \* thread::sleep(Duration::from_millis(100))
CommentedMs == 5000 \* "timeout ~5s"

BindMsg == "failed to bind port 0"
SpawnMsg == "failed to start backend"
SliceMsg == "byte index out of range"         \* val[1..val.len()-1] with 1 > len-1
UnwrapMsg == "called Option::unwrap() on a None value"
KillMsg == "called Result::unwrap() on an Err value"
NoPanic == "none"

\* Ports the operating system may assign to a bind on port 0 (u16, nonzero).
Ports == {8080, 65535}

\* Characters of the exhaustively enumerated environment-file lines.
Alphabet == {"a", "=", "#", " ", "\"", "'"}

\* Lines of the environment file used by the runs of the whole lifecycle.
SampleLines ==
    { <<"A", "=", "1">>,
      <<"A", "=", "2">>,
      <<"P", "O", "R", "T", "=", "9">>,
      <<"#", " ", "c">>,
      <<"K", "=", "\"">> }

VARIABLES
    pc,            \* position of the setup closure / application
    port,          \* spawn_backend: port (0 before the reservation)
    listener,      \* TRUE while the TcpListener of the reservation is alive
    tried,         \* the candidates read so far, each with the result of the read
    content_opt,   \* index of the candidate whose content is parsed (0: None)
    nlines,        \* lines of the content iterated so far
    fileLen,       \* characters of those lines
    curLine,       \* the line of the current iteration of the lines() loop
    extra_env,     \* spawn_backend: extra_env, the (key, value) pairs in push order
    childEnv,      \* the environment set on the Command (key -> value)
    child,         \* "none" | "running" | "exited" | "killed"
    fwdOut,        \* stdout forwarder thread: "none" | "running" | "ended"
    fwdErr,        \* stderr forwarder thread
    wrote,         \* per stream, the lines the child has written to its pipe
    consumed,      \* per stream, how many of them reader.lines() has yielded
    printed,       \* the lines println! has put on the shell's stdout
    eprinted,      \* the lines eprintln! has put on the shell's stderr
    ioErr,         \* per stream, reads of the pipe fail from now on
    errs,          \* per stream, Err items dropped by flatten (modulo MaxErrs)
    probes,        \* health requests issued
    sleeps,        \* thread::sleep(100 ms) calls made by the polling loop
    ready,         \* TRUE once a response with status 200 broke the loop
    answeredBy,    \* the process whose 200 broke the loop ("nobody": none did)
    backendState,  \* managed BackendState: <<>> or <<[port |-> p]>>
    windowShown,   \* window.show() has been called
    handlerOn,     \* the on_window_event closure is registered
    poisoned,      \* the Mutex around the child is poisoned
    closeCount,    \* CloseRequested events delivered to the closure
    killCalls,     \* ch.kill() calls made by the closure
    lastUrl,       \* result of the latest get_backend_url call (<<>>: never called)
    steps,         \* the startup steps completed so far, in order
    panicMsg       \* message of the panic that aborted the application

vars == << pc, port, listener, tried, content_opt, nlines, fileLen, curLine, extra_env,
           childEnv, child, fwdOut, fwdErr, wrote, consumed, printed, eprinted,
           ioErr, errs, probes, sleeps, ready, answeredBy, backendState, windowShown, handlerOn, poisoned, closeCount,
           killCalls, lastUrl, steps, panicMsg >>

loaderVars == << tried, content_opt, nlines, fileLen, curLine, extra_env >>
logVars == << wrote, consumed, printed, eprinted, ioErr, errs >>
childVars == << childEnv, child, fwdOut, fwdErr, logVars >>
pollVars == << probes, sleeps, ready, answeredBy >>
appVars == << backendState, windowShown, handlerOn, poisoned, closeCount,
              killCalls, lastUrl >>

\* --------------------------------------------------------- string helpers
Last(s) == s[Len(s)]

\* str::trim_start / trim_end / trim over the whitespace of the alphabet
RECURSIVE trim_start(_)
trim_start(s) ==
    IF s # <<>> /\ Head(s) = " " THEN trim_start(Tail(s)) ELSE s

RECURSIVE trim_end(_)
trim_end(s) ==
    IF s # <<>> /\ Last(s) = " " THEN trim_end(SubSeq(s, 1, Len(s) - 1)) ELSE s

trim(s) == trim_end(trim_start(s))

starts_with(s, c) == s # <<>> /\ Head(s) = c
ends_with(s, c) == s # <<>> /\ Last(s) = c

\* position of the first occurrence of c in s, 0 when there is none
FirstIndex(s, c) ==
    IF \E i \in 1..Len(s) : s[i] = c
    THEN CHOOSE i \in 1..Len(s) : s[i] = c /\ \A j \in 1..(i - 1) : s[j] # c
    ELSE 0

\* str::split_once: <<>> for None, else << before, after >>
split_once(s, c) ==
    LET i == FirstIndex(s, c)
    IN  IF i = 0 THEN <<>>
        ELSE << SubSeq(s, 1, i - 1), SubSeq(s, i + 1, Len(s)) >>

\* u16::to_string: the decimal digits of n
Digit(d) ==
    CASE d = 0 -> "0" [] d = 1 -> "1" [] d = 2 -> "2" [] d = 3 -> "3"
      [] d = 4 -> "4" [] d = 5 -> "5" [] d = 6 -> "6" [] d = 7 -> "7"
      [] d = 8 -> "8" [] d = 9 -> "9"

RECURSIVE to_string(_)
to_string(n) ==
    IF n < 10 THEN << Digit(n) >>
    ELSE to_string(n \div 10) \o << Digit(n % 10) >>

\* ------------------------------------------------------- the .env loader
\* line 41: the trimmed line is skipped
IsSkipped(line) == line = <<>> \/ starts_with(line, "#")

\* line 45: the condition under which the value is sliced
IsQuoted(val) ==
    \/ starts_with(val, "\"") /\ ends_with(val, "\"")
    \/ starts_with(val, "'") /\ ends_with(val, "'")

\* line 46: val[1..val.len()-1] panics when the range starts after its end
SlicePanics(val) == 1 > Len(val) - 1

StripQuotes(val) ==
    IF IsQuoted(val) THEN SubSeq(val, 2, Len(val) - 1) ELSE val

\* lines 40-49 for one raw line: "skip", "panic", or the pair pushed
ParseLine(raw) ==
    LET line == trim(raw)
        kv == split_once(line, "=")
    IN  IF IsSkipped(line) \/ kv = <<>> THEN [kind |-> "skip"]
        ELSE LET key == trim(kv[1])
                 val == trim(kv[2])
             IN  IF IsQuoted(val) /\ SlicePanics(val) THEN [kind |-> "panic"]
                 ELSE [kind |-> "pair", key |-> key, val |-> StripQuotes(val)]

\* lines 26-30: the candidates, relative to the current directory
Candidates == << "../../.env", "../../../.env", ".env" >>

\* lines 32-37: the reads made by the loop from candidate i on, each with its
\* result; the loop breaks after the first read that succeeds
RECURSIVE TryCandidates(_, _)
TryCandidates(i, readable) ==
    IF i > Len(Candidates) THEN <<>>
    ELSE IF i \in readable THEN << [cand |-> i, ok |-> TRUE] >>
    ELSE << [cand |-> i, ok |-> FALSE] >> \o TryCandidates(i + 1, readable)

\* a loop without the break: the last readable candidate supplies the content
LastReadable(readable) ==
    IF readable = {} THEN 0
    ELSE CHOOSE i \in readable : \A j \in readable : j <= i

\* lines 26-37: the first candidate that can be read (0 when none can)
FirstReadable(readable) ==
    IF readable = {} THEN 0
    ELSE CHOOSE i \in readable : \A j \in readable : i <= j

\* an environment in which the first assignment of a variable stays
SetEnvKeepFirst(env, k, v) ==
    [x \in (DOMAIN env) \cup {k} |-> IF x \in DOMAIN env THEN env[x] ELSE v]

\* Command::env: set or replace one variable
SetEnv(env, k, v) ==
    [x \in (DOMAIN env) \cup {k} |-> IF x = k THEN v ELSE env[x]]

\* lines 59-61: the overrides applied in order
RECURSIVE ApplyEnv(_, _)
ApplyEnv(env, pairs) ==
    IF pairs = <<>> THEN env
    ELSE ApplyEnv(SetEnv(env, Head(pairs)[1], Head(pairs)[2]), Tail(pairs))

PortKey == << "P", "O", "R", "T" >>
NoEnv == [x \in {} |-> <<>>]

\* lines 55-61: the environment built on the Command
CommandEnv(p, pairs) == ApplyEnv(SetEnv(NoEnv, PortKey, to_string(p)), pairs)

\* line 13
UrlPrefix == << "http://127.0.0.1:" >>
get_backend_url(state) == UrlPrefix \o to_string(state.port)

\* --------------------------------------------------------- log forwarding
\* lines 57-58: the two pipes of the child
Streams == {"out", "err"}

\* what the child can write as one line: a text, and whether its bytes are
\* valid UTF-8
ChildLines ==
    { [text |-> << "x" >>, utf8 |-> TRUE],
      [text |-> << "y" >>, utf8 |-> TRUE],
      [text |-> << "z" >>, utf8 |-> FALSE] }

\* BufRead::lines: Ok(text) for a line of valid UTF-8, Err otherwise
Decode(l) == IF l.utf8 THEN << l.text >> ELSE <<>>

\* lines 68 and 75: the format string
LogPrefix == << "[backend] " >>
FormatLine(text) == LogPrefix \o text

\* lines 68 and 75: flatten drops an Err item, the body prints an Ok item
Emit(log, l) ==
    IF Decode(l) = <<>> THEN log ELSE Append(log, FormatLine(Decode(l)[1]))

\* ------------------------------------------------------------------- Init
Init ==
    /\ pc = "start"
    /\ port = 0
    /\ listener = FALSE
    /\ tried = <<>>
    /\ content_opt = 0
    /\ nlines = 0
    /\ fileLen = 0
    /\ curLine = <<>>
    /\ extra_env = <<>>
    /\ childEnv = NoEnv
    /\ child = "none"
    /\ fwdOut = "none"
    /\ fwdErr = "none"
    /\ wrote = [s \in Streams |-> <<>>]
    /\ consumed = [s \in Streams |-> 0]
    /\ printed = <<>>
    /\ eprinted = <<>>
    /\ ioErr = [s \in Streams |-> FALSE]
    /\ errs = [s \in Streams |-> 0]
    /\ probes = 0
    /\ sleeps = 0
    /\ ready = FALSE
    /\ answeredBy = "nobody"
    /\ backendState = <<>>
    /\ windowShown = FALSE
    /\ handlerOn = FALSE
    /\ poisoned = FALSE
    /\ closeCount = 0
    /\ killCalls = 0
    /\ lastUrl = <<>>
    /\ steps = <<>>
    /\ panicMsg = NoPanic

\* A panic on the setup path aborts the application.
Abort(msg) ==
    /\ pc' = "aborted"
    /\ panicMsg' = msg

\* ------------------------------------------------------- port reservation
\* line 18-19: the bind succeeds and the assigned port is read back
BindPort ==
    /\ pc = "start"
    /\ \E p \in Ports : port' = p
    /\ listener' = TRUE
    /\ pc' = "bound"
    /\ UNCHANGED << loaderVars, childVars, pollVars, appVars, steps, panicMsg >>

\* line 18: the bind fails, expect() panics
BindFail ==
    /\ pc = "start"
    /\ Abort(BindMsg)
    /\ UNCHANGED << port, listener, loaderVars, childVars, pollVars, appVars, steps >>

\* a listener that is kept alive until spawn_backend returns
DropListenerLate ==
    /\ pc = "bound"
    /\ listener' = listener
    /\ pc' = "findenv"
    /\ steps' = Append(steps, "reserve")
    /\ UNCHANGED << port, loaderVars, childVars, pollVars, appVars, panicMsg >>

\* line 20
DropListener ==
    /\ pc = "bound"
    /\ listener' = FALSE
    /\ pc' = "findenv"
    /\ steps' = Append(steps, "reserve")
    /\ UNCHANGED << port, loaderVars, childVars, pollVars, appVars, panicMsg >>

\* ------------------------------------------------------------ .env loader
\* lines 24-37: current_dir, the three candidates in order, the first readable
FindEnvFile ==
    /\ pc = "findenv"
    /\ \E cwdOk \in BOOLEAN, readable \in SUBSET (1..3) :
         LET f == IF cwdOk THEN FirstReadable(readable) ELSE 0
         IN  /\ content_opt' = f
             /\ tried' = IF cwdOk THEN TryCandidates(1, readable) ELSE <<>>
             /\ pc' = IF f = 0 THEN "nofile" ELSE "lines"
    /\ UNCHANGED << port, listener, nlines, fileLen, curLine, extra_env,
                    childVars, pollVars, appVars, steps, panicMsg >>

\* lines 38 and 52: content_opt is None, the parsing block is skipped
SkipEnvFile ==
    /\ pc = "nofile"
    /\ pc' = "launch"
    /\ tried' = <<>>
    /\ content_opt' = 0
    /\ steps' = Append(steps, "loadenv")
    /\ UNCHANGED << port, listener, nlines, fileLen, curLine, extra_env,
                    childVars, pollVars, appVars, panicMsg >>

\* line 39: the iterator yields the next line of the content
ReadLine(l) ==
    /\ pc = "lines"
    /\ nlines < MaxLines
    /\ curLine' = l
    /\ nlines' = nlines + 1
    /\ fileLen' = fileLen + Len(l)
    /\ pc' = "parse"
    /\ UNCHANGED << port, listener, tried, content_opt, extra_env, childVars,
                    pollVars, appVars, steps, panicMsg >>

ReadSampleLine == \E l \in SampleLines : ReadLine(l)

\* every line over the alphabet that still fits into the file
ReadAnyLine ==
    \E n \in 0..(MaxFileLen - fileLen) :
        \E l \in [1..n -> Alphabet] : ReadLine(l)

\* lines 40-49: the body of the loop for the current line, which ends the
\* binding of the line
ParseCurLine ==
    /\ pc = "parse"
    /\ LET r == ParseLine(curLine)
       IN  CASE r.kind = "skip" ->
                  /\ pc' = "lines"
                  /\ UNCHANGED << extra_env, panicMsg >>
             [] r.kind = "pair" ->
                  /\ pc' = "lines"
                  /\ extra_env' = Append(extra_env, << r.key, r.val >>)
                  /\ UNCHANGED panicMsg
             [] r.kind = "panic" ->
                  /\ Abort(SliceMsg)
                  /\ UNCHANGED extra_env
    /\ curLine' = <<>>
    /\ UNCHANGED << port, listener, tried, content_opt, nlines, fileLen,
                    childVars, pollVars, appVars, steps >>

\* lines 50-52: the iterator is exhausted; the candidates and the content go
\* out of scope
EndOfFile ==
    /\ pc = "lines"
    /\ pc' = "launch"
    /\ tried' = <<>>
    /\ content_opt' = 0
    /\ nlines' = 0
    /\ fileLen' = 0
    /\ curLine' = curLine
    /\ steps' = Append(steps, "loadenv")
    /\ UNCHANGED << port, listener, extra_env, childVars, pollVars, appVars,
                    panicMsg >>

\* ---------------------------------------------------------------- launcher
\* lines 55-77: the command is built and spawned, both forwarders are started
SpawnChild ==
    /\ pc = "launch"
    /\ childEnv' = CommandEnv(port, extra_env)
    /\ child' = "running"
    /\ fwdOut' = "running"
    /\ fwdErr' = "running"
    /\ pc' = "probe"
    /\ steps' = Append(steps, "launch")
    /\ UNCHANGED << port, listener, loaderVars, logVars, pollVars, appVars,
                    panicMsg >>

\* a spawn error that is ignored: the setup goes on without a child
SpawnFailIgnored ==
    /\ pc = "launch"
    /\ pc' = "probe"
    /\ UNCHANGED << port, listener, loaderVars, childVars, pollVars, appVars,
                    steps, panicMsg >>

\* line 62: spawn fails, expect() panics
SpawnFail ==
    /\ pc = "launch"
    /\ Abort(SpawnMsg)
    /\ UNCHANGED << port, listener, loaderVars, childVars, pollVars, appVars,
                    steps >>

\* ---------------------------------------------------------- health polling
\* what one GET /health with a 100 ms timeout can come back with
ProbeOutcomes == {"status200", "otherStatus", "refused", "timeout"}

\* line 20 and lines 55-62: who can be listening on 127.0.0.1:port when a
\* request is made. The listener was dropped before the spawn, so the port is
\* open to any process of the machine; the child can hold it only while it
\* runs and only if the PORT it was given is the reserved one.
Listeners ==
    {"nobody", "other"}
      \cup (IF /\ child = "running"
                /\ PortKey \in DOMAIN childEnv
                /\ childEnv[PortKey] = to_string(port)
             THEN {"child"} ELSE {})

\* line 82-83: what the request comes back with, by who is listening
Answers(owner) ==
    IF owner = "nobody" THEN {"refused", "timeout"}
    ELSE {"status200", "otherStatus", "timeout"}

\* lines 80-87: the time the loop has taken after p requests that all ran
\* into their timeout and s sleeps
WorstCaseWaitMs(p, s) == p * TimeoutMs + s * IntervalMs

\* a loop that does not sleep after its last failed request
ProbeHealthLastNoSleep ==
    /\ pc = "probe"
    /\ probes' = probes + 1
    /\ sleeps' = sleeps
    /\ \E owner \in Listeners : \E outcome \in Answers(owner) :
         IF outcome = "status200" \/ probes + 1 = Attempts
         THEN /\ ready' = (outcome = "status200")
              /\ answeredBy' = IF outcome = "status200" THEN owner ELSE answeredBy
              /\ pc' = "manage"
              /\ steps' = Append(steps, "wait")
         ELSE /\ ready' = ready
              /\ answeredBy' = answeredBy
              /\ pc' = "sleep"
              /\ steps' = steps
    /\ UNCHANGED << port, listener, loaderVars, childVars, appVars, panicMsg >>

\* a 200 that does not leave the loop
ProbeHealthNoBreak ==
    /\ pc = "probe"
    /\ probes' = probes + 1
    /\ sleeps' = sleeps
    /\ \E owner \in Listeners : \E outcome \in Answers(owner) :
         /\ ready' = (ready \/ outcome = "status200")
         /\ answeredBy' = IF outcome = "status200" THEN owner ELSE answeredBy
    /\ pc' = "sleep"
    /\ UNCHANGED << port, listener, loaderVars, childVars, appVars, steps,
                    panicMsg >>

\* a loop that takes any end of the request, an error included, for success
ProbeHealthAnyAnswer ==
    /\ pc = "probe"
    /\ probes' = probes + 1
    /\ sleeps' = sleeps
    /\ \E owner \in Listeners : \E outcome \in Answers(owner) :
         /\ ready' = TRUE
         /\ answeredBy' = owner
         /\ pc' = "manage"
         /\ steps' = Append(steps, "wait")
    /\ UNCHANGED << port, listener, loaderVars, childVars, appVars, panicMsg >>

\* lines 80-85: one request; status 200 breaks out of the loop
ProbeHealth ==
    /\ pc = "probe"
    /\ probes' = probes + 1
    /\ sleeps' = sleeps
    /\ \E owner \in Listeners : \E outcome \in Answers(owner) :
         IF outcome = "status200"
         THEN /\ ready' = TRUE
              /\ answeredBy' = owner
              /\ pc' = "manage"
              /\ steps' = Append(steps, "wait")
         ELSE /\ ready' = ready
              /\ answeredBy' = answeredBy
              /\ pc' = "sleep"
              /\ steps' = steps
    /\ UNCHANGED << port, listener, loaderVars, childVars, appVars, panicMsg >>

\* a loop that runs one iteration too many
SleepIntervalOffByOne ==
    /\ pc = "sleep"
    /\ sleeps' = sleeps + 1
    /\ IF probes <= Attempts
       THEN pc' = "probe" /\ steps' = steps
       ELSE pc' = "manage" /\ steps' = Append(steps, "wait")
    /\ UNCHANGED << port, listener, loaderVars, childVars, probes, ready,
                    answeredBy, appVars, panicMsg >>

\* lines 86-87 and 80: the sleep, then the next iteration or the end of the range
SleepInterval ==
    /\ pc = "sleep"
    /\ sleeps' = sleeps + 1
    /\ IF probes < Attempts
       THEN pc' = "probe" /\ steps' = steps
       ELSE pc' = "manage" /\ steps' = Append(steps, "wait")
    /\ UNCHANGED << port, listener, loaderVars, childVars, probes, ready,
                    answeredBy, appVars, panicMsg >>

\* ------------------------------------------------------ the setup closure
\* a state published with the default port instead of the reserved one
ManageStateDefault ==
    /\ pc = "manage"
    /\ backendState' = << [port |-> 0] >>
    /\ pc' = "window"
    /\ steps' = Append(steps, "publish")
    /\ UNCHANGED << port, listener, loaderVars, childVars, pollVars,
                    windowShown, handlerOn, poisoned, closeCount, killCalls,
                    lastUrl, panicMsg >>

\* lines 96-98: spawn_backend has returned; the state is managed and printed
ManageState ==
    /\ pc = "manage"
    /\ backendState' = << [port |-> port] >>
    /\ pc' = "window"
    /\ steps' = Append(steps, "publish")
    /\ UNCHANGED << port, listener, loaderVars, childVars, pollVars,
                    windowShown, handlerOn, poisoned, closeCount, killCalls,
                    lastUrl, panicMsg >>

\* a window shown as soon as the child is spawned, before the wait has ended
ShowWindowEarly ==
    /\ \/ pc = "probe" /\ ~windowShown /\ pc' = pc
       \/ pc = "window" /\ pc' = "register"
    /\ windowShown' = TRUE
    /\ steps' = IF windowShown THEN steps ELSE Append(steps, "show")
    /\ UNCHANGED << port, listener, loaderVars, childVars, pollVars,
                    backendState, handlerOn, poisoned, closeCount, killCalls,
                    lastUrl, panicMsg >>

\* lines 100-101: the window "main" is found and shown
ShowWindow ==
    /\ pc = "window"
    /\ windowShown' = TRUE
    /\ pc' = "register"
    /\ steps' = Append(steps, "show")
    /\ UNCHANGED << port, listener, loaderVars, childVars, pollVars,
                    backendState, handlerOn, poisoned, closeCount, killCalls,
                    lastUrl, panicMsg >>

\* line 100: get_webview_window returns None, unwrap() panics
WindowMissing ==
    /\ pc = "window"
    /\ Abort(UnwrapMsg)
    /\ UNCHANGED << port, listener, loaderVars, childVars, pollVars, appVars,
                    steps >>

\* lines 104-113: the child goes behind the mutex, the closure is registered
RegisterHandler ==
    /\ pc = "register"
    /\ handlerOn' = TRUE
    /\ pc' = "running"
    /\ steps' = Append(steps, "register")
    /\ UNCHANGED << port, listener, loaderVars, childVars, pollVars,
                    backendState, windowShown, poisoned, closeCount, killCalls,
                    lastUrl, panicMsg >>

\* ------------------------------------------------------- the running shell
\* Child::kill on a child in state c: the possible (new state, result) pairs.
\* A running child is killed; for one that is gone already the call changes
\* nothing and, depending on the platform, returns Ok or an error.
Kill(c) ==
    IF c = "running"
    THEN { [child |-> "killed", res |-> "Ok"] }
    ELSE { [child |-> c, res |-> "Ok"], [child |-> c, res |-> "Err"] }

\* a closure that is registered before the wait and runs during it
CloseRequestedDuringLaunch ==
    /\ pc \in {"probe", "sleep", "running"}
    /\ child # "none"
    /\ closeCount < MaxClose
    /\ closeCount' = closeCount + 1
    /\ IF poisoned
       THEN UNCHANGED << child, killCalls >>
       ELSE /\ killCalls' = killCalls + 1
            /\ \E k \in Kill(child) : child' = k.child
    /\ UNCHANGED << pc, port, listener, loaderVars, childEnv, fwdOut, fwdErr,
                    logVars,
                    pollVars, backendState, windowShown, handlerOn, poisoned,
                    lastUrl, steps, panicMsg >>

\* a closure that takes the lock and does not kill
CloseRequestedNoKill ==
    /\ pc = "running"
    /\ handlerOn
    /\ closeCount < MaxClose
    /\ closeCount' = closeCount + 1
    /\ UNCHANGED << pc, port, listener, loaderVars, childVars, pollVars,
                    backendState, windowShown, handlerOn, poisoned, killCalls,
                    lastUrl, steps, panicMsg >>

\* a closure that unwraps the result of kill
CloseRequestedUnwrap ==
    /\ pc = "running"
    /\ handlerOn
    /\ closeCount < MaxClose
    /\ closeCount' = closeCount + 1
    /\ IF poisoned
       THEN UNCHANGED << pc, child, killCalls, poisoned, panicMsg >>
       ELSE /\ killCalls' = killCalls + 1
            /\ \E k \in Kill(child) :
                 /\ child' = k.child
                 /\ IF k.res = "Err"
                    THEN poisoned' = TRUE /\ Abort(KillMsg)
                    ELSE UNCHANGED << pc, poisoned, panicMsg >>
    /\ UNCHANGED << port, listener, loaderVars, childEnv, fwdOut, fwdErr,
                    logVars,
                    pollVars, backendState, windowShown, handlerOn, lastUrl,
                    steps >>

\* lines 106-111: a CloseRequested event reaches the closure
CloseRequested ==
    /\ pc = "running"
    /\ handlerOn
    /\ closeCount < MaxClose
    /\ closeCount' = closeCount + 1
    /\ IF poisoned
       THEN UNCHANGED << child, killCalls >>
       ELSE /\ killCalls' = killCalls + 1
            /\ \E k \in Kill(child) : child' = k.child
    /\ UNCHANGED << pc, port, listener, loaderVars, childEnv, fwdOut, fwdErr,
                    logVars,
                    pollVars, backendState, windowShown, handlerOn, poisoned,
                    lastUrl, steps, panicMsg >>

\* lines 11-14: the UI invokes the command
GetBackendUrl ==
    /\ pc = "running"
    /\ backendState # <<>>
    /\ lastUrl' = get_backend_url(backendState[1])
    /\ UNCHANGED << pc, port, listener, loaderVars, childVars, pollVars,
                    backendState, windowShown, handlerOn, poisoned, closeCount,
                    killCalls, steps, panicMsg >>

\* ------------------------------------------------------------ environment
\* the backend process exits on its own
ChildExit ==
    /\ child = "running"
    /\ child' = "exited"
    /\ UNCHANGED << pc, port, listener, loaderVars, childEnv, fwdOut, fwdErr,
                    logVars,
                    pollVars, appVars, steps, panicMsg >>

\* the child writes one line to one of its pipes
ChildWrite(s, l) ==
    /\ child = "running"
    /\ Len(wrote["out"]) + Len(wrote["err"]) < MaxLog
    /\ wrote' = [wrote EXCEPT ![s] = Append(@, l)]
    /\ UNCHANGED << pc, port, listener, loaderVars, childEnv, child, fwdOut,
                    fwdErr, consumed, printed, eprinted, ioErr, errs, pollVars,
                    appVars, steps, panicMsg >>

ChildWrites == \E s \in Streams, l \in ChildLines : ChildWrite(s, l)

\* from now on every read of the pipe returns an I/O error
StreamFails(s) ==
    /\ (IF s = "out" THEN fwdOut ELSE fwdErr) = "running"
    /\ ~ioErr[s]
    /\ ioErr' = [ioErr EXCEPT ![s] = TRUE]
    /\ UNCHANGED << pc, port, listener, loaderVars, childEnv, child, fwdOut,
                    fwdErr, wrote, consumed, printed, eprinted, errs, pollVars,
                    appVars, steps, panicMsg >>

StreamFailsAny == \E s \in Streams : StreamFails(s)

\* lines 65-69: the stdout forwarder takes the next line of the pipe
ForwardOutLine ==
    /\ fwdOut = "running"
    /\ ~ioErr["out"]
    /\ consumed["out"] < Len(wrote["out"])
    /\ consumed' = [consumed EXCEPT !["out"] = @ + 1]
    /\ printed' = Emit(printed, wrote["out"][consumed["out"] + 1])
    /\ UNCHANGED << pc, port, listener, loaderVars, childEnv, child, fwdOut,
                    fwdErr, wrote, eprinted, ioErr, errs, pollVars, appVars,
                    steps, panicMsg >>

\* a stderr forwarder that prints with println!
ForwardErrLinePrintln ==
    /\ fwdErr = "running"
    /\ ~ioErr["err"]
    /\ consumed["err"] < Len(wrote["err"])
    /\ consumed' = [consumed EXCEPT !["err"] = @ + 1]
    /\ printed' = Emit(printed, wrote["err"][consumed["err"] + 1])
    /\ UNCHANGED << pc, port, listener, loaderVars, childEnv, child, fwdOut,
                    fwdErr, wrote, eprinted, ioErr, errs, pollVars, appVars,
                    steps, panicMsg >>

\* lines 72-76: the stderr forwarder takes the next line of the pipe
ForwardErrLine ==
    /\ fwdErr = "running"
    /\ ~ioErr["err"]
    /\ consumed["err"] < Len(wrote["err"])
    /\ consumed' = [consumed EXCEPT !["err"] = @ + 1]
    /\ eprinted' = Emit(eprinted, wrote["err"][consumed["err"] + 1])
    /\ UNCHANGED << pc, port, listener, loaderVars, childEnv, child, fwdOut,
                    fwdErr, wrote, printed, ioErr, errs, pollVars, appVars,
                    steps, panicMsg >>

\* line 68: lines() yields the Err of a failed read, flatten drops it and asks
\* for the next item
ForwardOutReadErr ==
    /\ fwdOut = "running"
    /\ ioErr["out"]
    /\ errs' = [errs EXCEPT !["out"] = (@ + 1) % MaxErrs]
    /\ UNCHANGED << pc, port, listener, loaderVars, childEnv, child, fwdOut,
                    fwdErr, wrote, consumed, printed, eprinted, ioErr, pollVars,
                    appVars, steps, panicMsg >>

\* line 75: the same on the stderr pipe
ForwardErrReadErr ==
    /\ fwdErr = "running"
    /\ ioErr["err"]
    /\ errs' = [errs EXCEPT !["err"] = (@ + 1) % MaxErrs]
    /\ UNCHANGED << pc, port, listener, loaderVars, childEnv, child, fwdOut,
                    fwdErr, wrote, consumed, printed, eprinted, ioErr, pollVars,
                    appVars, steps, panicMsg >>

\* lines 68 and 75: the pipe of a dead child reaches end of stream once every
\* line has been taken; the forwarder's loop and thread end
ForwardOutEnd ==
    /\ child \in {"exited", "killed"}
    /\ fwdOut = "running"
    /\ ~ioErr["out"]
    /\ consumed["out"] = Len(wrote["out"])
    /\ fwdOut' = "ended"
    /\ UNCHANGED << pc, port, listener, loaderVars, childEnv, child, fwdErr,
                    logVars, pollVars, appVars, steps, panicMsg >>

ForwardErrEnd ==
    /\ child \in {"exited", "killed"}
    /\ fwdErr = "running"
    /\ ~ioErr["err"]
    /\ consumed["err"] = Len(wrote["err"])
    /\ fwdErr' = "ended"
    /\ UNCHANGED << pc, port, listener, loaderVars, childEnv, child, fwdOut,
                    logVars, pollVars, appVars, steps, panicMsg >>

\* --------------------------------------------------------- specifications
SetupStep ==
    \/ BindPort
    \/ BindFail
    \/ DropListener
    \/ FindEnvFile
    \/ SkipEnvFile
    \/ ReadSampleLine
    \/ ParseCurLine
    \/ EndOfFile
    \/ SpawnChild
    \/ SpawnFail
    \/ ProbeHealth
    \/ SleepInterval
    \/ ManageState
    \/ ShowWindow
    \/ WindowMissing
    \/ RegisterHandler

Next ==
    \/ SetupStep
    \/ CloseRequested
    \/ GetBackendUrl
    \/ ChildExit
    \/ ForwardOutEnd
    \/ ForwardErrEnd

\* the whole lifecycle, the environment file made of the sample lines
Spec == Init /\ [][Next]_vars

\* the setup closure is sequential code: it keeps running until it returns or panics
FairSpec == Spec /\ WF_vars(SetupStep)

\* reservation, loader and launcher over every environment file within the bounds
NextLoad ==
    \/ BindPort
    \/ BindFail
    \/ DropListener
    \/ FindEnvFile
    \/ SkipEnvFile
    \/ ReadAnyLine
    \/ ParseCurLine
    \/ EndOfFile
    \/ SpawnChild
    \/ SpawnFail

SpecLoad == Init /\ [][NextLoad]_vars

\* the steps of the two forwarder threads
ForwardOut == ForwardOutLine \/ ForwardOutReadErr \/ ForwardOutEnd
ForwardErr == ForwardErrLine \/ ForwardErrReadErr \/ ForwardErrEnd

\* the startup up to the spawn, then the child, its pipes and the forwarders
NextLog ==
    \/ BindPort
    \/ DropListener
    \/ FindEnvFile
    \/ SkipEnvFile
    \/ EndOfFile
    \/ SpawnChild
    \/ ChildWrites
    \/ StreamFailsAny
    \/ ForwardOutLine
    \/ ForwardErrLine
    \/ ForwardOutReadErr
    \/ ForwardErrReadErr
    \/ ForwardOutEnd
    \/ ForwardErrEnd
    \/ ChildExit

SpecLog == Init /\ [][NextLog]_vars

\* a forwarder thread that can take a step is scheduled
FairLog == SpecLog /\ WF_vars(ForwardOut) /\ WF_vars(ForwardErr)

\* ------------------------------------------------------------ properties
StartupOrder ==
    << "reserve", "loadenv", "launch", "wait", "publish", "show", "register" >>

IsPrefix(s, t) == Len(s) <= Len(t) /\ SubSeq(t, 1, Len(s)) = s

\* spawn_backend's polling loop has been left
WaitReturned == Len(steps) >= 4

\* C1: once the close handler is registered, every CloseRequested event
\* delivered to it calls kill on the child, and after the first such event
\* the child is not running any more.
C1_CloseKillsChild ==
    /\ killCalls = closeCount
    /\ closeCount > 0 => (handlerOn /\ child # "running")

C1_Witness == closeCount > 0 /\ child = "killed" /\ ~ready

\* C2: a close handler that runs when the child is already gone (killed by
\* an earlier run or exited by itself) leaves the child's state as it was,
\* raises no panic and leaves the application running.
C2_ShutdownIdempotent ==
    [][ (closeCount' = closeCount + 1 /\ child # "running")
        => /\ child' = child
           /\ killCalls' = killCalls + 1
           /\ panicMsg' = NoPanic
           /\ ~poisoned'
           /\ pc' = "running" ]_vars

C2_Witness == closeCount = 2 /\ killCalls = 2 /\ child = "killed"

\* C3: the startup steps complete in the order reserve, load environment,
\* launch, readiness wait, publish, show, register; the endpoint is published
\* and the window shown only when the polling loop has been left, after a 200
\* or after all attempts.
C3_StartupOrder ==
    /\ IsPrefix(steps, StartupOrder)
    /\ (windowShown \/ backendState # <<>>)
         => /\ pc \notin {"probe", "sleep"}
            /\ WaitReturned
            /\ ready \/ probes = Attempts

C3_Witness == windowShown /\ ready /\ probes < Attempts

\* C4: in every startup in which the port is reserved and the child spawned,
\* the window has been shown once the setup closure has ended.
C4_WindowShownAfterSpawn ==
    (child # "none" /\ pc \in {"running", "aborted"}) => windowShown

\* C5: when the first 200 arrives on the k-th request, exactly k requests have
\* been issued, one interval has been slept after each of the k-1 failed ones,
\* the loop is left, and no request or sleep follows.
C5_StopsAtFirstSuccess ==
    /\ [](ready => /\ probes \in 1..Attempts
                   /\ sleeps = probes - 1
                   /\ pc \notin {"probe", "sleep"}
                   /\ WaitReturned)
    /\ [][ready => (probes' = probes /\ sleeps' = sleeps)]_vars

C5_Witness == ready /\ probes = 3 /\ sleeps = 2 /\ pc = "running"

\* C6: the polling loop always ends and never panics; without a 200 it ends
\* after exactly 100 requests; never are more than 100 requests issued.
C6_WaitTerminates ==
    /\ [](probes <= Attempts)
    /\ []((WaitReturned /\ ~ready) => (probes = Attempts /\ sleeps = Attempts))
    /\ []((pc \in {"probe", "sleep", "manage"}) => panicMsg = NoPanic)
    /\ (pc = "probe") ~> (pc = "manage")

C6_Witness == pc = "manage" /\ ~ready /\ probes = Attempts

\* C7: a failed bind aborts before anything else is done, a failed spawn
\* aborts before a forwarder is started or a request issued; in both cases
\* nothing is published or shown and the panic message names the stage.
C7_FatalStartupAborts ==
    /\ BindMsg # SpawnMsg
    /\ panicMsg = BindMsg => (port = 0 /\ steps = <<>>)
    /\ panicMsg = SpawnMsg => steps = << "reserve", "loadenv" >>
    /\ panicMsg \in {BindMsg, SpawnMsg} => (pc = "aborted" /\ child = "none")
    /\ child = "none"
         => /\ fwdOut = "none" /\ fwdErr = "none"
            /\ probes = 0
            /\ backendState = <<>>
            /\ ~windowShown
            /\ pc \in {"start", "bound", "findenv", "nofile", "lines",
                       "parse", "launch", "aborted"}

C7_Witness == panicMsg = SpawnMsg /\ pc = "aborted" /\ extra_env # <<>>

\* C8: the managed state is set once, to the reserved nonzero port, and never
\* changes; every get_backend_url call returns http://127.0.0.1:<that port>.
C8_EndpointImmutable ==
    /\ [](backendState # <<>>
            => (port # 0 /\ backendState = << [port |-> port] >>))
    /\ [](lastUrl # <<>>
            => /\ Head(lastUrl) = "http://127.0.0.1:"
               /\ port = 8080 => Tail(lastUrl) = << "8", "0", "8", "0" >>
               /\ port = 65535 => Tail(lastUrl) = << "6", "5", "5", "3", "5" >>)
    /\ [][backendState # <<>> => backendState' = backendState]_vars
    /\ [][lastUrl # <<>> => lastUrl' = lastUrl]_vars

C8_Witness == lastUrl # <<>> /\ child = "killed" /\ closeCount > 0

\* the index of the last pair of the sequence with key k
LastIndexOf(pairs, k) ==
    CHOOSE i \in DOMAIN pairs :
        /\ pairs[i][1] = k
        /\ \A j \in DOMAIN pairs : pairs[j][1] = k => j <= i

\* C9: in the environment of the spawned child, every key of the override
\* sequence has the value of the last pair with that key.
C9_LastOverrideWins ==
    child # "none"
      => \A i \in DOMAIN extra_env :
           LET k == extra_env[i][1]
           IN  /\ k \in DOMAIN childEnv
               /\ childEnv[k] = extra_env[LastIndexOf(extra_env, k)][2]

C9_Witness ==
    /\ child = "running"
    /\ Len(extra_env) = 2
    /\ extra_env[1][1] = extra_env[2][1]
    /\ extra_env[1][2] # extra_env[2][2]

\* the line yields an override: not blank, not a comment, with an '='
HasOverride(raw) ==
    LET line == trim(raw)
    IN  line # <<>> /\ Head(line) # "#" /\ \E i \in DOMAIN line : line[i] = "="

KeyOf(raw) == trim(split_once(trim(raw), "=")[1])
ValueOf(raw) == trim(split_once(trim(raw), "=")[2])

\* one layer of a matching pair of quotes removed, anything else unchanged
OneLayerStripped(v) ==
    IF Len(v) >= 2 /\ v[1] = v[Len(v)] /\ v[1] \in {"\"", "'"}
    THEN SubSeq(v, 2, Len(v) - 1)
    ELSE v

\* C10: the value pushed for a line is its trimmed value with one layer of a
\* matching pair of quotes removed, and unchanged when it is not wrapped in
\* a matching pair.
C10_QuoteStripping ==
    [][ (pc = "parse" /\ HasOverride(curLine))
        => /\ pc' = "lines"
           /\ extra_env' = Append(extra_env,
                  << KeyOf(curLine), OneLayerStripped(ValueOf(curLine)) >>) ]_vars

C12_LineNeverAborts ==
    [][ pc = "parse"
        => /\ pc' = "lines"
           /\ panicMsg' = NoPanic
           /\ \/ extra_env' = extra_env
              \/ /\ Len(extra_env') = Len(extra_env) + 1
                 /\ SubSeq(extra_env', 1, Len(extra_env)) = extra_env ]_vars

\* C13: the listener of the reservation exists only between the bind and the
\* drop; from the search for the environment file on, so when the child is
\* spawned and when requests are sent, the supervisor holds no socket on the port.
C13_ListenerReleased ==
    /\ listener <=> pc = "bound"
    /\ (child # "none" \/ probes > 0 \/ WaitReturned) => ~listener

C13_Witness == child = "running" /\ probes > 0 /\ ~listener /\ port # 0

\* C14: the PORT variable of the spawned child's environment is the reserved
\* port, whatever the overrides are.
C14_ChildPortIsReserved ==
    child # "none"
      => (PortKey \in DOMAIN childEnv /\ childEnv[PortKey] = to_string(port))

\* the lifecycle state of the controller: what the supervisor has done to
\* the child so far (it never observes an exit of the child)
Lifecycle ==
    IF killCalls > 0 THEN "Terminated"
    ELSE IF child = "none" THEN "NotStarted"
    ELSE IF ~WaitReturned THEN "Launching"
    ELSE IF ready THEN "Ready"
    ELSE "TimedOutStillRunning"

LifecycleEdges ==
    { << "NotStarted", "Launching" >>,
      << "Launching", "Ready" >>,
      << "Launching", "TimedOutStillRunning" >>,
      << "Ready", "Terminated" >>,
      << "TimedOutStillRunning", "Terminated" >> }

\* C15: the lifecycle changes only along NotStarted -> Launching ->
\* (Ready | TimedOutStillRunning) -> Terminated; kill is called only when the
\* wait has returned and the handler is registered; a child that was killed
\* or has exited is never running again, and no second child is spawned.
C15_LifecycleOrder ==
    /\ [][ Lifecycle' = Lifecycle
           \/ << Lifecycle, Lifecycle' >> \in LifecycleEdges ]_vars
    /\ [][ killCalls' > killCalls
           => Lifecycle \in {"Ready", "TimedOutStillRunning", "Terminated"} ]_vars
    /\ [](killCalls > 0 => (WaitReturned /\ handlerOn))
    /\ [][ (child \in {"exited", "killed"}) => child' = child ]_vars
    /\ [][ child # "none" => (child' # "none" /\ childEnv' = childEnv) ]_vars

C15_Witness == Lifecycle = "Terminated" /\ ~ready /\ child = "killed"

\* C18: one interval is slept after every failed request, the last one
\* included, so a wait in which every request runs into its timeout takes
\* 100 x (100 ms + 100 ms) = 20000 ms, not the 5000 ms of the comment.
C18_WorstCaseWait ==
    /\ pc = "probe" => sleeps = probes
    /\ pc = "sleep" => sleeps = probes - 1
    /\ (WaitReturned /\ ~ready)
         => /\ sleeps = Attempts
            /\ WorstCaseWaitMs(probes, sleeps) = 20000
            /\ WorstCaseWaitMs(probes, sleeps) = Attempts * (TimeoutMs + IntervalMs)
            /\ WorstCaseWaitMs(probes, sleeps) # CommentedMs

C18_Witness == pc = "manage" /\ ~ready /\ sleeps = 100 /\ probes = 100

\* C19: no startup path leaves a spawned child without the close handler: in
\* every state in which the child has been spawned and the setup closure has
\* ended, by returning or by a panic, the handler that kills it is registered.
C19_NoChildWithoutHandler ==
    (child # "none" /\ pc \in {"running", "aborted"}) => handlerOn

\* C20: when the wait ends in Ready, the supervised child is alive and is the
\* process that answered 200 on the reserved port; a 200 from another process
\* that took the port never makes the supervisor Ready.
C20_ReadyMeansChildAnswered ==
    [][(~ready /\ ready') => (child = "running" /\ answeredBy' = "child")]_vars

\* C20, amended: when the wait ends in Ready, a process listening on the
\* reserved port answered 200 on that request; if it was the supervised child,
\* the child was alive and had been given the reserved port.
C20_ReadyMeansPortAnswered ==
    [][(~ready /\ ready')
         => /\ answeredBy' \in {"child", "other"}
            /\ answeredBy' = "child"
                 => /\ child = "running"
                    /\ childEnv[PortKey] = to_string(port)]_vars

C20_Witness == ready /\ answeredBy = "other" /\ child = "exited"

\* the lines a sink must show once the first n lines of a stream are taken:
\* the decodable ones, in order, each after the prefix
RECURSIVE Forwarded(_, _)
Forwarded(ls, n) ==
    IF n = 0 THEN <<>>
    ELSE LET l == ls[n]
         IN  IF l.utf8
             THEN Append(Forwarded(ls, n - 1), << "[backend] " >> \o l.text)
             ELSE Forwarded(ls, n - 1)

C17_ForwardersTerminate ==
    (child \in {"exited", "killed"}) ~> (fwdOut = "ended" /\ fwdErr = "ended")

====
